---- MODULE Spec2Model ----
(***************************************************************************)
(* OakClient (src/src/client.ts): an HTTP client whose calls run through a *)
(* composed middleware chain (compose/dispatch) ending in the transport    *)
(* call, with the middlewares urlPrefix, timeout, retry and throwErrors.   *)
(*                                                                         *)
(* Every call is a stack of handler frames.  dispatch(i) pushes the frame  *)
(* of the handler at index i (the terminal continuation at index           *)
(* middleware.length); a frame that settles is popped and its settlement   *)
(* is handed to the frame below through ret, which is how an awaited       *)
(* next() resolves or rejects.  A call is suspended (the event loop is     *)
(* free to run timers) only where the code awaits something that is not    *)
(* already settled: the transport and the retry decision function.         *)
(*                                                                         *)
(* trace and episodes record what happened; no action reads them, except   *)
(* that the environment counts the retries it has granted in trace.        *)
(***************************************************************************)
EXTENDS Integers, Sequences, FiniteSets, TLC

\* ------------------------------------------------------------ bounds
\* The longest handler sequence registered with use().
MaxHandlers == 2
\* The most retries (decisions answering true) the environment grants a call.
MaxRetries == 2

\* ------------------------------------------------------------ constants
\* throwErrors escalates a response whose status is at least this.
ErrorStatus == 400

\* The calls made on the client.
Calls == {1, 2}
\* The statuses the transport replies with.
Statuses == {200, 399, 400, 500}
\* The handlers a client registers: the provided middlewares, a plain
\* handler that runs code before and after an awaited next() ("mark"), and a
\* plain function that returns next(), returns without calling it, or throws
\* ("gate").
Kinds == {"urlPrefix", "timeout", "retry", "throwErrors", "mark", "gate"}
\* A value that is not a function, registered with use() all the same.
NotAFunction == "undefined"
\* An array-like object that is not an array: { 0: handler }.
NotAnArray == [j \in {0} |-> "mark"]
\* The signal of a controller of the caller's, passed as init.signal; the
\* controllers of the timeout handlers are numbered from 1.
CallerSignal == 100
\* The target every call is given, and the prefix of urlPrefix.
Target == <<"/resource">>
Prefix == <<"http://host">>

VARIABLES
  middleware,   \* OakClient.middleware: the registered handlers, in order
  issued,       \* how many calls the program makes on the client
  budget,       \* how many retries the decision function grants a call
  init,         \* init.signal of the calls: 0 (none) or the caller's signal
  call,         \* per call: "idle", "running", "resolved", "rejected"
  result,       \* per call: what fetch() settled with
  cref,         \* per call: the Context object the call created (0: none)
  ctxs,         \* the Context objects, by reference
  stack,        \* per call: the frames of the handlers entered and not settled
  ret,          \* per call: the settlement handed to the awaiting frame
  armed,        \* per call: the controllers whose deadline timer is armed
  aborted,      \* per call: the controllers whose signal is aborted
  counters,     \* per call: controllers and errors created so far
  trace,        \* per call: the events of the call, in order
  episodes      \* per call: the handler invocations that settled, in order

client == <<middleware, issued, budget, init>>
timers == <<armed, aborted>>
vars == <<middleware, issued, budget, init, call, result, cref, ctxs, stack, ret,
          armed, aborted, counters, trace, episodes>>

\* ------------------------------------------------------------ values
\* An Error object: its constructor name, the status code it carries (Boom)
\* and its identity (the order of creation within the call).
NoErr == [name |-> "none", status |-> 0, id |-> 0]
MkErr(c, n, s) == [name |-> n, status |-> s, id |-> counters[c].errs + 1]

\* A promise: pending, fulfilled ("ok") or rejected with e ("err").
Pending == [k |-> "none", e |-> NoErr]
Fulfilled == [k |-> "ok", e |-> NoErr]
Rejected(e) == [k |-> "err", e |-> e]

\* An exception thrown synchronously out of a function call: not a promise.
Thrown(e) == [k |-> "throw", e |-> e]

\* A dispatch without its try/catch: what fn(...) throws reaches the caller
\* of next() as a synchronous exception.
DispatchNoCatch(r) == r

\* try { return Promise.resolve(fn(context, ...)) }
\* catch (err) { return Promise.reject(err) }
DispatchCatch(r) == IF r.k = "throw" THEN Rejected(r.e) ELSE r

\* ctx = { req: { input, init }, res: undefined }: res 0 is undefined, as is
\* signal 0 and error NoErr.
NewContext == [input |-> Target, signal |-> 0, res |-> 0, error |-> NoErr]

\* A client that keeps one Context object and hands it to every call.
SharedCtxRef(c) == 1

\* The Context object a call allocates: a new object per call.
NewCtxRef(c) == c

Ctx(c) == ctxs[cref[c]]

\* const ctx = { req: { input, init }, res: undefined }
CallContext == [NewContext EXCEPT !.signal = init]

\* ------------------------------------------------------------ compose
\* Array.isArray(middleware)
IsArray(m) == \E n \in 0..(MaxHandlers + 1) : DOMAIN m = 1..n

\* A compose that validates nothing: an entry that is not a function fails
\* only when dispatch reaches it.
ComposeUnchecked(m) == FALSE

\* if (!Array.isArray(middleware)) throw new TypeError(...)
\* for (const fn of middleware)
\*   if (typeof fn !== 'function') throw new TypeError(...)
ComposeThrows(m) == ~IsArray(m) \/ \E j \in DOMAIN m : m[j] \notin Kinds

\* A dispatch that binds next() one handler too far.
SkipIndex(i) == i + 2

\* dispatch.bind(null, i + 1): the index a handler's next() dispatches.
NextIndex(i) == i + 1

\* let fn = middleware[i]; if (i === middleware.length) fn = next
KindAt(i) ==
  IF i = Len(middleware) THEN "transport"
  ELSE IF i < Len(middleware) THEN middleware[i + 1]
  ELSE "none"

\* The frame of fn(context, dispatch.bind(null, i + 1)), about to run.  Of a
\* retry frame, attempt and err are the handler's locals; ncalls, errs and
\* decs count and list its next() calls, the errors it caught and the
\* decisions it was given.
NewFrame(i) ==
  [pos |-> i, kind |-> KindAt(i), pc |-> "start", attempt |-> 0, ncalls |-> 0,
   ctl |-> 0, sig |-> 0, err |-> NoErr, errs |-> <<>>, decs |-> <<>>]

Top(c) == stack[c][Len(stack[c])]
Running(c) == call[c] = "running" /\ Len(stack[c]) > 0
At(c, kind, pc) == Running(c) /\ Top(c).kind = kind /\ Top(c).pc = pc
Pop(s) == SubSeq(s, 1, Len(s) - 1)
SetTop(s, f) == [s EXCEPT ![Len(s)] = f]

\* A composer that forbids a second call of the same next() (the guard
\* "next() called multiple times"): the call rejects and runs nothing.
CallNextOnce(c, f) ==
  IF f.ncalls > 1
  THEN /\ stack' = [stack EXCEPT ![c] = SetTop(@, f)]
       /\ ret' = [ret EXCEPT ![c] = Rejected(MkErr(c, "Error", 0))]
  ELSE /\ stack' = [stack EXCEPT ![c] = Append(SetTop(@, f), NewFrame(NextIndex(f.pos)))]
       /\ ret' = [ret EXCEPT ![c] = Pending]

\* The call next(): the caller's frame becomes f and dispatch(i + 1) runs on
\* top of it.
CallNext(c, f) ==
  /\ stack' = [stack EXCEPT ![c] = Append(SetTop(@, f), NewFrame(NextIndex(f.pos)))]
  /\ ret' = [ret EXCEPT ![c] = Pending]

\* A settled handler invocation: its frame f, what its last next() settled
\* with (saw), what it settled with itself (res), whether its controller's
\* signal was aborted by then, and ctx.res.status at that moment.
Episode(c, f, saw, r, st) ==
  [pos |-> f.pos, kind |-> f.kind, attempt |-> f.attempt, ncalls |-> f.ncalls,
   ctl |-> f.ctl, errs |-> f.errs, decs |-> f.decs, saw |-> saw, res |-> r,
   fired |-> f.ctl \in aborted[c], status |-> st]

\* The top frame, as f, settles with r.
Settle(c, f, saw, r, st) ==
  /\ stack' = [stack EXCEPT ![c] = Pop(@)]
  /\ ret' = [ret EXCEPT ![c] = r]
  /\ episodes' = [episodes EXCEPT ![c] = Append(@, Episode(c, f, saw, r, st))]

Log(c, ev) == trace' = [trace EXCEPT ![c] = Append(@, ev)]

\* What the handler at index i saw of its awaited next(): it resolved (the
\* handler's post-phase runs) or it rejected with an error of that name.
Outcome(i, r) == IF r.k = "ok" THEN <<"post", i>> ELSE <<"raise", i, r.e.name>>

CountErr(c) == counters' = [counters EXCEPT ![c].errs = @ + 1]

\* ------------------------------------------------------------ client
\* use(middleware): this.middleware.push(middleware), before any call.
Use(k) ==
  /\ \A c \in Calls : call[c] = "idle"
  /\ Len(middleware) < MaxHandlers
  /\ middleware' = Append(middleware, k)
  /\ UNCHANGED <<issued, budget, init, call, result, cref, ctxs, stack, ret,
                 timers, counters, trace, episodes>>

\* fetch(input, init): a fresh Context, compose(this.middleware), and the
\* chain entered at dispatch(0).  fetch is async: a TypeError thrown by
\* compose rejects the call.
FetchCall(c) ==
  /\ c <= issued
  /\ call[c] = "idle"
  /\ cref' = [cref EXCEPT ![c] = NewCtxRef(c)]
  /\ ctxs' = [ctxs EXCEPT ![NewCtxRef(c)] = CallContext]
  /\ IF ComposeThrows(middleware)
     THEN /\ call' = [call EXCEPT ![c] = "rejected"]
          /\ result' = [result EXCEPT ![c] =
                          [k |-> "rejected", res |-> 0, err |-> MkErr(c, "TypeError", 0)]]
          /\ CountErr(c)
          /\ UNCHANGED <<stack, ret>>
     ELSE /\ call' = [call EXCEPT ![c] = "running"]
          /\ stack' = [stack EXCEPT ![c] = <<NewFrame(0)>>]
          /\ ret' = [ret EXCEPT ![c] = Pending]
          /\ UNCHANGED <<result, counters>>
  /\ UNCHANGED <<client, timers, trace, episodes>>

\* A fetch() that wraps the chain's error in an error of its own.
FetchResultWrapped(c, r) ==
  IF r.k = "ok" THEN [k |-> "resolved", res |-> Ctx(c).res, err |-> NoErr]
  ELSE [k |-> "rejected", res |-> 0, err |-> MkErr(c, "Error", 0)]

\* await fn(ctx, ...); return ctx.res: what fetch() settles with when the
\* chain settled with r.
FetchResult(c, r) ==
  IF r.k = "ok" THEN [k |-> "resolved", res |-> Ctx(c).res, err |-> NoErr]
  ELSE [k |-> "rejected", res |-> 0, err |-> r.e]

FetchReturn(c) ==
  /\ call[c] = "running"
  /\ stack[c] = <<>>
  /\ ret[c].k # "none"
  /\ call' = [call EXCEPT ![c] = FetchResult(c, ret[c]).k]
  /\ result' = [result EXCEPT ![c] = FetchResult(c, ret[c])]
  /\ UNCHANGED <<client, cref, ctxs, stack, ret, timers, counters, trace, episodes>>

\* ------------------------------------------------------------ urlPrefix
\* ctx.req.input = `${prefix}${ctx.req.input}`; return next()
UrlPrefixRun(c) ==
  /\ At(c, "urlPrefix", "start")
  /\ ctxs' = [ctxs EXCEPT ![cref[c]].input = Prefix \o @]
  /\ CallNext(c, [Top(c) EXCEPT !.pc = "return"])
  /\ Log(c, <<"pre", Top(c).pos>>)
  /\ UNCHANGED <<client, call, result, cref, timers, counters, episodes>>

\* return next(): the handler's promise settles as next()'s promise does.
ReturnNext(c) ==
  /\ Running(c) /\ Top(c).pc = "return"
  /\ ret[c].k # "none"
  /\ Settle(c, Top(c), ret[c], ret[c], Ctx(c).res)
  /\ Log(c, Outcome(Top(c).pos, ret[c]))
  /\ UNCHANGED <<client, call, result, cref, ctxs, timers, counters>>

\* ------------------------------------------------------------ a plain handler
\* async (ctx, next) => { <pre>; await next(); <post> }
MarkPre(c) ==
  /\ At(c, "mark", "start")
  /\ CallNext(c, [Top(c) EXCEPT !.pc = "await"])
  /\ Log(c, <<"pre", Top(c).pos>>)
  /\ UNCHANGED <<client, call, result, cref, ctxs, timers, counters, episodes>>

MarkPost(c) ==
  /\ At(c, "mark", "await")
  /\ ret[c].k # "none"
  /\ Settle(c, Top(c), ret[c], ret[c], Ctx(c).res)
  /\ Log(c, Outcome(Top(c).pos, ret[c]))
  /\ UNCHANGED <<client, call, result, cref, ctxs, timers, counters>>

\* ------------------------------------------------------------ a gate
\* (ctx, next) => { if (...) throw new Error(...); if (...) return; return next() }
\* The handler passes the call on.
GatePass(c) ==
  /\ At(c, "gate", "start")
  /\ CallNext(c, [Top(c) EXCEPT !.pc = "return", !.ncalls = 1])
  /\ Log(c, <<"pre", Top(c).pos>>)
  /\ UNCHANGED <<client, call, result, cref, ctxs, timers, counters, episodes>>

\* A composer that runs the next handler by itself when a handler returned
\* without calling next().
GateSkipEager(c) ==
  /\ At(c, "gate", "start")
  /\ CallNext(c, [Top(c) EXCEPT !.pc = "return"])
  /\ Log(c, <<"skip", Top(c).pos>>)
  /\ UNCHANGED <<client, call, result, cref, ctxs, timers, counters, episodes>>

\* The handler returns without calling next(): its promise resolves.
GateSkip(c) ==
  /\ At(c, "gate", "start")
  /\ Settle(c, Top(c), Pending, Fulfilled, Ctx(c).res)
  /\ Log(c, <<"skip", Top(c).pos>>)
  /\ UNCHANGED <<client, call, result, cref, ctxs, timers, counters>>

\* The constructor names of the errors a gate throws: a plain Error, or the
\* AbortError of a cancellable operation of its own.
ThrowNames == {"Error", "AbortError"}

\* The handler throws an error named n, synchronously, without calling
\* next(): dispatch catches the exception and returns a rejected promise.
GateThrow(c, n) ==
  /\ At(c, "gate", "start")
  /\ Settle(c, Top(c), Pending, DispatchCatch(Thrown(MkErr(c, n, 0))), Ctx(c).res)
  /\ CountErr(c)
  /\ Log(c, <<"throw", Top(c).pos, n>>)
  /\ UNCHANGED <<client, call, result, cref, ctxs, timers>>

\* ------------------------------------------------------------ timeout
\* A timeout that leaves a signal already on the request in place.
TimeoutEnterKeep(c) ==
  /\ At(c, "timeout", "start")
  /\ LET k == counters[c].ctls + 1 IN
       /\ counters' = [counters EXCEPT ![c].ctls = k]
       /\ armed' = [armed EXCEPT ![c] = @ \cup {k}]
       /\ ctxs' = [ctxs EXCEPT ![cref[c]].signal = IF @ = 0 THEN k ELSE @]
       /\ CallNext(c, [Top(c) EXCEPT !.pc = "await", !.ctl = k])
  /\ Log(c, <<"pre", Top(c).pos>>)
  /\ UNCHANGED <<client, call, result, cref, aborted, episodes>>

\* const controller = new AbortController();
\* const timeoutId = setTimeout(() => controller.abort(), ms);
\* req.init.signal = controller.signal; try { await next(); ...
TimeoutEnter(c) ==
  /\ At(c, "timeout", "start")
  /\ LET k == counters[c].ctls + 1 IN
       /\ counters' = [counters EXCEPT ![c].ctls = k]
       /\ armed' = [armed EXCEPT ![c] = @ \cup {k}]
       /\ ctxs' = [ctxs EXCEPT ![cref[c]].signal = k]
       /\ CallNext(c, [Top(c) EXCEPT !.pc = "await", !.ctl = k])
  /\ Log(c, <<"pre", Top(c).pos>>)
  /\ UNCHANGED <<client, call, result, cref, aborted, episodes>>

\* The call awaits the transport or the decision function.
Suspended(c) == Running(c) /\ Top(c).pc \in {"fetching", "deciding"}

\* The timer's callback, () => controller.abort(): it runs only while the
\* call is suspended, and a timer fires once.
TimerFire(c) ==
  /\ Suspended(c)
  /\ \E k \in armed[c] :
       /\ armed' = [armed EXCEPT ![c] = @ \ {k}]
       /\ aborted' = [aborted EXCEPT ![c] = @ \cup {k}]
       /\ Log(c, <<"fire", k>>)
  /\ UNCHANGED <<client, call, result, cref, ctxs, stack, ret, counters, episodes>>

\* e.constructor.name === "AbortError"
IsAbort(e) == e.name = "AbortError"

\* catch (e) { if (<abort>) throw new TimeoutError(); throw e; }
TimeoutCatch(c, e) == IF IsAbort(e) THEN MkErr(c, "TimeoutError", 0) ELSE e

\* A timeout that clears its timer after await next() and not in a finally
\* clause: the timer stays armed when next() rejects.
ClearOnSuccess(c, k) == IF ret[c].k = "ok" THEN armed[c] \ {k} ELSE armed[c]

\* finally { clearTimeout(timeoutId); }
ClearTimeout(c, k) == armed[c] \ {k}

\* await next() settles: the catch clause, then the finally clause.
TimeoutSettle(c) ==
  /\ At(c, "timeout", "await")
  /\ ret[c].k # "none"
  /\ Settle(c, Top(c), ret[c],
            IF ret[c].k = "ok" THEN Fulfilled ELSE Rejected(TimeoutCatch(c, ret[c].e)),
            Ctx(c).res)
  /\ armed' = [armed EXCEPT ![c] = ClearTimeout(c, Top(c).ctl)]
  /\ counters' = [counters EXCEPT ![c].errs =
                    IF ret[c].k = "err" /\ IsAbort(ret[c].e) THEN @ + 1 ELSE @]
  /\ Log(c, Outcome(Top(c).pos, ret[c]))
  /\ UNCHANGED <<client, call, result, cref, ctxs, aborted>>

\* ------------------------------------------------------------ retry
\* The retries granted so far: the decision function answers true at most
\* budget times in a call.
Granted(c) == Len(SelectSeq(trace[c], LAMBDA ev : ev[1] = "decide" /\ ev[3]))

\* let attempt = 0; do { attempt += 1; try { return await next(); ...
RetryEnter(c) ==
  /\ At(c, "retry", "start")
  /\ CallNext(c, [Top(c) EXCEPT !.pc = "await", !.attempt = 1, !.ncalls = 1])
  /\ Log(c, <<"pre", Top(c).pos>>)
  /\ UNCHANGED <<client, call, result, cref, ctxs, timers, counters, episodes>>

\* A retry that awaits next() without returning: after a success the loop
\* runs again while canRetry is still true from the attempt before.
RetryReturnStale(c) ==
  /\ At(c, "retry", "await")
  /\ ret[c].k = "ok"
  /\ IF Top(c).decs # <<>>
     THEN /\ CallNext(c, [Top(c) EXCEPT !.attempt = @ + 1, !.ncalls = @ + 1])
          /\ UNCHANGED episodes
     ELSE Settle(c, Top(c), ret[c], Fulfilled, Ctx(c).res)
  /\ Log(c, Outcome(Top(c).pos, ret[c]))
  /\ UNCHANGED <<client, call, result, cref, ctxs, timers, counters>>

\* return await next(): downstream resolved, the handler returns.
RetryReturn(c) ==
  /\ At(c, "retry", "await")
  /\ ret[c].k = "ok"
  /\ Settle(c, Top(c), ret[c], Fulfilled, Ctx(c).res)
  /\ Log(c, Outcome(Top(c).pos, ret[c]))
  /\ UNCHANGED <<client, call, result, cref, ctxs, timers, counters>>

\* catch (e) { canRetry = await handler(ctx, attempt, e); ...: the decision
\* function is called with the error just caught and may suspend.
RetryCatch(c) ==
  /\ At(c, "retry", "await")
  /\ ret[c].k = "err"
  /\ stack' = [stack EXCEPT ![c] =
                 SetTop(@, [Top(c) EXCEPT !.pc = "deciding", !.err = ret[c].e,
                                          !.errs = Append(@, ret[c].e)])]
  /\ ret' = [ret EXCEPT ![c] = Pending]
  /\ Log(c, Outcome(Top(c).pos, ret[c]))
  /\ UNCHANGED <<client, call, result, cref, ctxs, timers, counters, episodes>>

\* A retry that rethrows the error of its first attempt.
RetryThrowFirst(f) == f.errs[1]

\* The error the handler rethrows when the decision is false: throw e.
RetryThrow(f) == f.err

\* A retry with a ceiling of two attempts: after the second failure it
\* rethrows whatever the decision function answers.
RetryDecideCeiling(c, b) ==
  /\ At(c, "retry", "deciding")
  /\ b => Granted(c) < budget
  /\ LET f == [Top(c) EXCEPT !.decs = Append(@, b)] IN
       IF b /\ f.attempt < 2
       THEN /\ CallNext(c, [f EXCEPT !.pc = "await", !.attempt = @ + 1,
                                     !.ncalls = @ + 1])
            /\ UNCHANGED episodes
       ELSE Settle(c, f, Rejected(f.err), Rejected(RetryThrow(f)), Ctx(c).res)
  /\ Log(c, <<"decide", Top(c).attempt, b, Top(c).pos>>)
  /\ UNCHANGED <<client, call, result, cref, ctxs, timers, counters>>

\* A retry that increments attempt once, before the loop.
RetryDecideStuck(c, b) ==
  /\ At(c, "retry", "deciding")
  /\ b => Granted(c) < budget
  /\ LET f == [Top(c) EXCEPT !.decs = Append(@, b)] IN
       IF b
       THEN /\ CallNext(c, [f EXCEPT !.pc = "await", !.ncalls = @ + 1])
            /\ UNCHANGED episodes
       ELSE Settle(c, f, Rejected(f.err), Rejected(RetryThrow(f)), Ctx(c).res)
  /\ Log(c, <<"decide", Top(c).attempt, b, Top(c).pos>>)
  /\ UNCHANGED <<client, call, result, cref, ctxs, timers, counters>>

\* The decision function answers b.  if (!canRetry) throw e; while (canRetry):
\* the next iteration increments attempt and calls next() again.
RetryDecide(c, b) ==
  /\ At(c, "retry", "deciding")
  /\ b => Granted(c) < budget
  /\ LET f == [Top(c) EXCEPT !.decs = Append(@, b)] IN
       IF b
       THEN /\ CallNext(c, [f EXCEPT !.pc = "await", !.attempt = @ + 1,
                                     !.ncalls = @ + 1])
            /\ UNCHANGED episodes
       ELSE Settle(c, f, Rejected(f.err), Rejected(RetryThrow(f)), Ctx(c).res)
  /\ Log(c, <<"decide", Top(c).attempt, b, Top(c).pos>>)
  /\ UNCHANGED <<client, call, result, cref, ctxs, timers, counters>>

\* A retry that catches what the decision function throws and rethrows the
\* downstream error.
RetryRefusalDownstream(f, e) == f.err

\* What the handler rejects with when handler(ctx, attempt, e) throws e2: the
\* await is inside the catch clause, under no try, so e2 leaves the handler.
RetryRefusal(f, e) == e

\* The decision function throws (or rejects with) an error of its own.
RetryDecideThrows(c) ==
  /\ At(c, "retry", "deciding")
  /\ Settle(c, Top(c), Rejected(Top(c).err),
            Rejected(RetryRefusal(Top(c), MkErr(c, "DecisionError", 0))), Ctx(c).res)
  /\ CountErr(c)
  /\ Log(c, <<"refuse", Top(c).pos, Top(c).attempt>>)
  /\ UNCHANGED <<client, call, result, cref, ctxs, timers>>

\* ------------------------------------------------------------ throwErrors
\* await next();
ThrowErrorsEnter(c) ==
  /\ At(c, "throwErrors", "start")
  /\ CallNext(c, [Top(c) EXCEPT !.pc = "await"])
  /\ Log(c, <<"pre", Top(c).pos>>)
  /\ UNCHANGED <<client, call, result, cref, ctxs, timers, counters, episodes>>

\* An escalation that lets the status 400 itself pass.
EscalatesAbove(status) == status > ErrorStatus

\* if (status >= 400) throw new Boom.Boom(undefined, { statusCode: status })
Escalates(status) == status >= ErrorStatus

\* const { status } = ctx.res!; ...: what the handler settles with once
\* next() has resolved.  Destructuring an undefined res throws a TypeError.
ThrowErrorsResult(c, status) ==
  IF status = 0 THEN Rejected(MkErr(c, "TypeError", 0))
  ELSE IF Escalates(status) THEN Rejected(MkErr(c, "Boom", status))
  ELSE Fulfilled

ThrowErrorsCheck(c) ==
  /\ At(c, "throwErrors", "await")
  /\ ret[c].k # "none"
  /\ LET r == IF ret[c].k = "err" THEN ret[c] ELSE ThrowErrorsResult(c, Ctx(c).res) IN
       /\ Settle(c, Top(c), ret[c], r, Ctx(c).res)
       /\ counters' = [counters EXCEPT ![c].errs =
                         IF ret[c].k = "ok" /\ r.k = "err" THEN @ + 1 ELSE @]
  /\ Log(c, Outcome(Top(c).pos, ret[c]))
  /\ UNCHANGED <<client, call, result, cref, ctxs, timers>>

\* ------------------------------------------------------------ transport
\* The terminal continuation of fetch(): const { input, init } = ctx.req;
\* await this.fetchImplementation(input, init), and then the body read
\* (await response.json() / response.text()).  Both awaits wait for the
\* transport and end in the same catch clause, so they are one suspension.
TermInvoke(c) ==
  /\ At(c, "transport", "start")
  /\ stack' = [stack EXCEPT ![c] =
                 SetTop(@, [Top(c) EXCEPT !.pc = "fetching", !.sig = Ctx(c).signal])]
  /\ Log(c, <<"term", Ctx(c).input, Ctx(c).signal>>)
  /\ UNCHANGED <<client, call, result, cref, ctxs, ret, timers, counters, episodes>>

\* The signal handed to the transport is aborted: the transport rejects.
SignalAborted(c) == Top(c).sig \in aborted[c]

\* catch (e) { ctx.error = e as Error; throw e; }
TermCatch(c, e) ==
  /\ ctxs' = [ctxs EXCEPT ![cref[c]].error = e]
  /\ Settle(c, Top(c), Pending, Rejected(e), Ctx(c).res)
  /\ CountErr(c)

\* A terminal continuation that treats a reply of status >= 400 as a failure.
TransportReplyStrict(c, s) ==
  /\ At(c, "transport", "fetching")
  /\ ~SignalAborted(c)
  /\ IF s >= ErrorStatus
     THEN TermCatch(c, MkErr(c, "Error", s))
     ELSE /\ ctxs' = [ctxs EXCEPT ![cref[c]].res = s]
          /\ Settle(c, Top(c), Pending, Fulfilled, s)
          /\ UNCHANGED counters
  /\ Log(c, <<"reply", s>>)
  /\ UNCHANGED <<client, call, result, cref, timers>>

\* The transport replies with status s and the body is read:
\* ctx.res = { status: response.status, headers, data, raw }
TransportReply(c, s) ==
  /\ At(c, "transport", "fetching")
  /\ ~SignalAborted(c)
  /\ ctxs' = [ctxs EXCEPT ![cref[c]].res = s]
  /\ Settle(c, Top(c), Pending, Fulfilled, s)
  /\ Log(c, <<"reply", s>>)
  /\ UNCHANGED <<client, call, result, cref, timers, counters>>

\* The transport fails: a network failure, or a body that cannot be read.
TransportFail(c) ==
  /\ At(c, "transport", "fetching")
  /\ ~SignalAborted(c)
  /\ TermCatch(c, MkErr(c, "FetchError", 0))
  /\ Log(c, <<"fail">>)
  /\ UNCHANGED <<client, call, result, cref, timers>>

\* The transport call (or the body read) is aborted through its signal: the
\* transport (cross-fetch) rejects with an AbortError.
TransportAbort(c) ==
  /\ At(c, "transport", "fetching")
  /\ SignalAborted(c)
  /\ TermCatch(c, MkErr(c, "AbortError", 0))
  /\ Log(c, <<"abort">>)
  /\ UNCHANGED <<client, call, result, cref, timers>>

\* ------------------------------------------------------------ specification
InitCalls(n, b) ==
  /\ issued = n
  /\ budget = b
  /\ call = [c \in Calls |-> "idle"]
  /\ result = [c \in Calls |-> [k |-> "none", res |-> 0, err |-> NoErr]]
  /\ cref = [c \in Calls |-> 0]
  /\ ctxs = [r \in Calls |-> NewContext]
  /\ stack = [c \in Calls |-> <<>>]
  /\ ret = [c \in Calls |-> Pending]
  /\ armed = [c \in Calls |-> {}]
  /\ aborted = [c \in Calls |-> {}]
  /\ counters = [c \in Calls |-> [ctls |-> 0, errs |-> 0]]
  /\ trace = [c \in Calls |-> <<>>]
  /\ episodes = [c \in Calls |-> <<>>]

\* A new OakClient(), on which one call is made, with no signal of the
\* caller's.
Init == middleware = <<>> /\ init = 0 /\ InitCalls(1, MaxRetries)

\* The clients on which two calls are made.
TwoChains ==
  {<<"urlPrefix", "mark">>, <<"gate", "timeout">>, <<"retry", "throwErrors">>}

\* A client with its handlers registered, on which two calls are made, their
\* steps interleaved; each call is granted one retry.
InitTwo == middleware \in TwoChains /\ init = 0 /\ InitCalls(2, 1)

\* A step of a call.
Step ==
  \/ \E c \in Calls : FetchCall(c)
  \/ \E c \in Calls : FetchReturn(c)
  \/ \E c \in Calls : UrlPrefixRun(c)
  \/ \E c \in Calls : ReturnNext(c)
  \/ \E c \in Calls : MarkPre(c)
  \/ \E c \in Calls : MarkPost(c)
  \/ \E c \in Calls : GatePass(c)
  \/ \E c \in Calls : GateSkip(c)
  \/ \E c \in Calls : \E n \in ThrowNames : GateThrow(c, n)
  \/ \E c \in Calls : TimeoutEnter(c)
  \/ \E c \in Calls : TimerFire(c)
  \/ \E c \in Calls : TimeoutSettle(c)
  \/ \E c \in Calls : RetryEnter(c)
  \/ \E c \in Calls : RetryReturn(c)
  \/ \E c \in Calls : RetryCatch(c)
  \/ \E c \in Calls : \E b \in BOOLEAN : RetryDecide(c, b)
  \/ \E c \in Calls : RetryDecideThrows(c)
  \/ \E c \in Calls : ThrowErrorsEnter(c)
  \/ \E c \in Calls : ThrowErrorsCheck(c)
  \/ \E c \in Calls : TermInvoke(c)
  \/ \E c \in Calls : \E s \in Statuses : TransportReply(c, s)
  \/ \E c \in Calls : TransportFail(c)
  \/ \E c \in Calls : TransportAbort(c)

Next == (\E k \in Kinds \cup {NotAFunction} : Use(k)) \/ Step

Spec == Init /\ [][Next]_vars

SpecTwo == InitTwo /\ [][Step]_vars

\* The clients with a retry handler on which one call is made.
RetryChains ==
  {<<"retry", "urlPrefix">>, <<"mark", "retry">>, <<"retry", "gate">>,
   <<"timeout", "retry">>, <<"retry", "throwErrors">>}

InitRetry == middleware \in RetryChains /\ init = 0 /\ InitCalls(1, MaxRetries)

\* The event loop runs a continuation that is ready, and the transport, the
\* timers and the decision function do answer: a call that can take a step
\* eventually takes one.
SpecRetry == InitRetry /\ [][Step]_vars /\ WF_vars(Step)

\* The clients on which one call is made with or without a signal of the
\* caller's in init.
SignalChains ==
  {<<"timeout", "timeout">>, <<"retry", "timeout">>, <<"timeout", "retry">>,
   <<"urlPrefix", "throwErrors">>, <<"mark", "gate">>, <<"gate">>, <<>>}

InitSignal ==
  /\ middleware \in SignalChains
  /\ init \in {0, CallerSignal}
  /\ InitCalls(1, MaxRetries)

SpecSignal == InitSignal /\ [][Step]_vars

\* ------------------------------------------------------------ properties
Range(s) == {s[j] : j \in DOMAIN s}
Settled(c) == call[c] \in {"resolved", "rejected"}
IsPrefix(s, t) == Len(s) <= Len(t) /\ s = SubSeq(t, 1, Len(s))

\* The settled invocations of the handlers of a kind.
EpisodesOf(c, kind) == {e \in Range(episodes[c]) : e.kind = kind}

\* The phases of a call, in order: a handler entered ("pre"), the terminal
\* continuation invoked ("term") and completed ("done"), a handler resumed
\* after its next() resolved ("post").
PhaseEvents(c) ==
  SelectSeq(trace[c], LAMBDA ev : ev[1] \in {"pre", "term", "reply", "post"})
Phase(ev) ==
  IF ev[1] \in {"pre", "post"} THEN <<ev[1], ev[2]>>
  ELSE IF ev[1] = "term" THEN <<"term">> ELSE <<"done">>
Phases(c) == [j \in 1..Len(PhaseEvents(c)) |-> Phase(PhaseEvents(c)[j])]

\* pre 0, ..., pre n-1, term, done, post n-1, ..., post 0
Onion(n) ==
  [j \in 1..(2 * n + 2) |->
     IF j <= n THEN <<"pre", j - 1>>
     ELSE IF j = n + 1 THEN <<"term">>
     ELSE IF j = n + 2 THEN <<"done">>
     ELSE <<"post", 2 * n + 2 - j>>]

\* A handler of the call settled without calling its next().
ShortCircuited(c) == \E j \in DOMAIN trace[c] : trace[c][j][1] \in {"skip", "throw"}

\* C1: when every handler calls next() once (no retry is granted and no
\* handler settles without calling it), a call
\* runs the pre-phases in registration order, then the terminal
\* continuation, then the post-phases in reverse order: at every moment the
\* phases run so far are a prefix of that order (so no post-phase precedes the
\* completion of the terminal continuation), and a call that resolved ran
\* all of it.
C1_OnionOrder ==
  \A c \in Calls :
    (Granted(c) = 0 /\ ~ShortCircuited(c)) =>
      /\ IsPrefix(Phases(c), Onion(Len(middleware)))
      /\ call[c] = "resolved" => Phases(c) = Onion(Len(middleware))

C1_Witness ==
  /\ Len(middleware) = 2
  /\ call[1] = "resolved"
  /\ Phases(1) = <<<<"pre", 0>>, <<"pre", 1>>, <<"term">>, <<"done">>,
                   <<"post", 1>>, <<"post", 0>>>>

\* C2: a retry handler whose every downstream invocation failed and whose
\* decision function answered true N-1 times and then false has invoked
\* downstream exactly N times and rejects with the error of the Nth
\* invocation, which is none of the earlier errors.
C2_RetryExhaustion ==
  \A c \in Calls : \A e \in EpisodesOf(c, "retry") :
    LET N == Len(e.decs) IN
      (/\ N >= 1
       /\ ~e.decs[N]
       /\ \A j \in 1..(N - 1) : e.decs[j]
       /\ Len(e.errs) = e.ncalls)
      => /\ e.ncalls = N
         /\ e.res = Rejected(e.errs[N])
         /\ \A j \in 1..(N - 1) : e.errs[j] # e.errs[N]

C2_Witness ==
  \E e \in EpisodesOf(1, "retry") :
    e.decs = <<TRUE, TRUE, FALSE>> /\ e.ncalls = 3 /\ e.res = Rejected(e.errs[3])

\* C3: a retry handler whose downstream invocation succeeded returns at
\* once: it resolves, the successful invocation is its last one (one more
\* than the failures), and the decision function was consulted once per
\* failure and never after the success; so after two failures and a success
\* downstream was invoked three times and the handler resolves.  A retry
\* handler still running never has more than one invocation that did not
\* fail, nor more decisions than failures.
C3_RetryStopsOnSuccess ==
  \A c \in Calls :
    /\ \A e \in EpisodesOf(c, "retry") :
         e.saw.k = "ok" =>
           /\ e.res = Fulfilled
           /\ e.ncalls = Len(e.errs) + 1
           /\ Len(e.decs) = Len(e.errs)
           /\ \A j \in DOMAIN e.decs : e.decs[j]
    /\ \A j \in DOMAIN stack[c] :
         stack[c][j].kind = "retry" =>
           /\ stack[c][j].ncalls <= Len(stack[c][j].errs) + 1
           /\ Len(stack[c][j].decs) <= Len(stack[c][j].errs)

C3_Witness ==
  /\ middleware = <<"retry">>
  /\ call[1] = "resolved"
  /\ \E e \in EpisodesOf(1, "retry") :
       e.ncalls = 3 /\ Len(e.errs) = 2 /\ e.decs = <<TRUE, TRUE>> /\ e.res = Fulfilled

\* C4: a timeout handler whose deadline elapsed while its downstream call
\* was still running (its timer fired before it settled) rejects with
\* TimeoutError.
C4_DeadlineYieldsTimeoutError ==
  \A c \in Calls : \A e \in EpisodesOf(c, "timeout") :
    e.fired => e.res.k = "err" /\ e.res.e.name = "TimeoutError"

\* C5: a settled timeout handler has no armed timer, whatever it settled
\* with; its signal is aborted only if it was aborted before the handler
\* settled; and a handler whose downstream completed before the deadline
\* completes normally and its timer never fires.
C5_TimerDisarmed ==
  \A c \in Calls : \A e \in EpisodesOf(c, "timeout") :
    /\ e.ctl \notin armed[c]
    /\ e.ctl \in aborted[c] => e.fired
    /\ (e.saw.k = "ok" /\ ~e.fired) => (e.res = Fulfilled /\ e.ctl \notin aborted[c])

C5_Witness ==
  \E e1, e2 \in EpisodesOf(1, "timeout") :
    /\ e1.res.k = "err" /\ ~e1.fired
    /\ e2.res = Fulfilled /\ ~e2.fired

\* C6: a throwErrors handler whose downstream completed with a populated
\* response completes without throwing when the status is in 200..399, and
\* throws an HTTP (Boom) error carrying exactly that status when it is >= 400.
C6_Escalation ==
  \A c \in Calls : \A e \in EpisodesOf(c, "throwErrors") :
    (e.saw.k = "ok" /\ e.status # 0) =>
      /\ e.status \in 200..399 => e.res = Fulfilled
      /\ e.status >= 400 =>
           /\ e.res.k = "err"
           /\ e.res.e.name = "Boom"
           /\ e.res.e.status = e.status

C6_Witness ==
  /\ call[1] = "rejected"
  /\ result[1].err.name = "Boom"
  /\ result[1].err.status = 400
  /\ Ctx(1).res = 400

\* A handler rejected with an error that its next() did not reject with.
HandlerThrew(c) ==
  \E e \in Range(episodes[c]) :
    e.kind # "transport" /\ e.res.k = "err" /\ e.res # e.saw

\* What the transport did on each invocation of a call, in order.
TransportOutcomes(c) ==
  SelectSeq(trace[c], LAMBDA ev : ev[1] \in {"reply", "fail", "abort"})
LastOutcome(c) == TransportOutcomes(c)[Len(TransportOutcomes(c))]

\* C7: without throwErrors among the handlers and with no handler throwing,
\* a settled call whose (last) transport invocation replied with a status
\* resolves with a response of that status, whatever the status.
C7_EscalationOptIn ==
  \A c \in Calls :
    (/\ Settled(c)
     /\ "throwErrors" \notin Range(middleware)
     /\ ~HandlerThrew(c)
     /\ TransportOutcomes(c) # <<>>
     /\ LastOutcome(c)[1] = "reply")
    => /\ call[c] = "resolved"
       /\ result[c].res = LastOutcome(c)[2]

C7_Witness ==
  /\ "throwErrors" \notin Range(middleware)
  /\ Len(middleware) = 2
  /\ call[1] = "resolved"
  /\ result[1].res = 500

\* What the composed chain, entered at dispatch(0), settled with.
ChainResult(c) == episodes[c][Len(episodes[c])].res

\* C8: a call whose chain rejected with e rejects with exactly e and returns
\* no response; a call whose chain completed resolves with ctx.res as the
\* chain left it.
C8_ClientOutcome ==
  \A c \in Calls :
    (Settled(c) /\ episodes[c] # <<>>) =>
      /\ ChainResult(c).k = "err" =>
           /\ call[c] = "rejected"
           /\ result[c].err = ChainResult(c).e
           /\ result[c].res = 0
      /\ ChainResult(c).k = "ok" =>
           /\ call[c] = "resolved"
           /\ result[c].res = Ctx(c).res
           /\ result[c].err = NoErr

C8_Witness ==
  /\ call[1] = "rejected"
  /\ result[1].err.name = "TimeoutError"
  /\ ChainResult(1) = Rejected(result[1].err)

\* C9: the Context of a settled call never has both response and error set.
C9_ResponseErrorExclusive ==
  \A c \in Calls :
    Settled(c) => ~(Ctx(c).res # 0 /\ Ctx(c).error # NoErr)

\* All that belongs to a call.
View(c) ==
  <<call[c], result[c], IF cref[c] = 0 THEN CallContext ELSE Ctx(c), stack[c],
    ret[c], armed[c], aborted[c], counters[c], trace[c], episodes[c]>>

\* What the environment did to a call: the transport's outcomes, the timers
\* that fired, the decisions, and the gates that did not pass the call on.
Env(c) ==
  SelectSeq(trace[c],
            LAMBDA ev : ev[1] \in {"reply", "fail", "abort", "fire", "decide",
                                   "skip", "throw", "refuse"})

C10_DistinctContexts ==
  \A c1, c2 \in Calls :
    (c1 # c2 /\ call[c1] # "idle" /\ call[c2] # "idle") => cref[c1] # cref[c2]

C10_SameOutcome ==
  \A c1, c2 \in Calls :
    (Settled(c1) /\ Settled(c2) /\ Env(c1) = Env(c2)) => View(c1) = View(c2)

C10_OwnState ==
  \A c1, c2 \in Calls :
    c1 # c2 => ~(View(c1)' # View(c1) /\ View(c2)' # View(c2))

\* C10: two calls on one client, their steps interleaved in any way, own
\* distinct Contexts; a step changes the state (Context, chain position,
\* timers, outcome) of one call only; and two calls that met the same
\* transport outcomes, timer firings and decisions entered the same
\* handlers in the same order, invoked the terminal continuation alike and
\* settled alike.
C10_NoInterference ==
  [](C10_DistinctContexts /\ C10_SameOutcome) /\ [][C10_OwnState]_vars

C10_Witness ==
  /\ middleware = <<"retry", "throwErrors">>
  /\ call[1] = "resolved" /\ call[2] = "resolved"
  /\ Env(1) = Env(2)
  /\ Granted(1) = 1
  /\ result[1] = result[2]

\* ------------------------------------------------------------ composition
\* What ran right after the event at index j of a call is the resumption
\* (post-phase or rejection) of the handler at position p.
ResumesAt(c, j, p) ==
  /\ trace[c][j + 1][1] \in {"post", "raise"}
  /\ trace[c][j + 1][2] = p

\* C11: a handler at position i that settles without calling its next()
\* runs nothing downstream: it was entered by the next() of the handler
\* before it (or by a retry's new attempt, or by the client), and the next
\* thing that runs is the resumption of the handler at position i - 1; no
\* handler at a position > i and not the terminal continuation runs in
\* between.  When the handler returned normally, the handlers before it
\* resume in reverse order, and, in a chain without retry, the terminal
\* continuation never runs in the call.
C11_ShortCircuit ==
  \A c \in Calls : \A j \in DOMAIN trace[c] :
    trace[c][j][1] \in {"skip", "throw"} =>
      LET i == trace[c][j][2] IN
        /\ IF i = 0 THEN j = 1 \/ trace[c][j - 1][1] = "decide"
           ELSE j > 1 /\ \/ trace[c][j - 1] = <<"pre", i - 1>>
                         \/ trace[c][j - 1][1] = "decide"
        /\ j < Len(trace[c]) => i > 0 /\ ResumesAt(c, j, i - 1)
        /\ trace[c][j][1] = "skip" =>
             /\ j < Len(trace[c]) => trace[c][j + 1] = <<"post", i - 1>>
             /\ \A m \in 1..i : j + m <= Len(trace[c]) => ResumesAt(c, j + m - 1, i - m)
        /\ "retry" \notin Range(middleware) =>
             \A m \in DOMAIN trace[c] :
               /\ trace[c][m][1] # "term"
               /\ trace[c][m][1] = "pre" => trace[c][m][2] < i

C11_Witness ==
  /\ middleware = <<"mark", "gate">>
  /\ call[1] = "resolved"
  /\ trace[1] = <<<<"pre", 0>>, <<"skip", 1>>, <<"post", 0>>>>
  /\ result[1].res = 0

\* The handlers that do not catch what their next() rejects with.
Passing == {"urlPrefix", "mark", "gate", "throwErrors"}

\* C12: an error thrown by a handler or by the terminal continuation
\* reaches the handlers entered before it as the rejection of their awaited
\* next(), innermost first: the handler that resumes next is the one just
\* before, and it sees the rejection its downstream settled with; a handler
\* that does not catch passes the same error upward; and a synchronous throw
\* inside a handler is delivered as a rejected promise, never as a
\* synchronous exception.
C12_ErrorPropagation ==
  \A c \in Calls :
    /\ ret[c].k # "throw"
    /\ \A e \in Range(episodes[c]) :
         /\ e.res.k # "throw"
         /\ e.saw.k # "throw"
         /\ (e.saw.k = "err" /\ e.kind \in Passing) => e.res = e.saw
    /\ \A k \in 1..(Len(episodes[c]) - 1) :
         episodes[c][k + 1].pos = episodes[c][k].pos - 1 =>
           episodes[c][k + 1].saw = episodes[c][k].res
    /\ \A j \in 1..(Len(trace[c]) - 1) :
         LET ev == trace[c][j] IN
           /\ (ev[1] = "fail" /\ Len(middleware) > 0) =>
                trace[c][j + 1] = <<"raise", Len(middleware) - 1, "FetchError">>
           /\ (ev[1] = "abort" /\ Len(middleware) > 0) =>
                trace[c][j + 1] = <<"raise", Len(middleware) - 1, "AbortError">>
           /\ (ev[1] = "throw" /\ ev[2] > 0) =>
                trace[c][j + 1] = <<"raise", ev[2] - 1, ev[3]>>
           /\ (ev[1] = "raise" /\ ev[2] > 0 /\ KindAt(ev[2]) \in Passing) =>
                trace[c][j + 1] = <<"raise", ev[2] - 1, ev[3]>>
           /\ (ev[1] = "raise" /\ ev[2] > 0 /\ KindAt(ev[2]) = "timeout") =>
                /\ trace[c][j + 1][1] = "raise"
                /\ trace[c][j + 1][2] = ev[2] - 1

C12_Witness ==
  /\ middleware = <<"mark", "gate">>
  /\ call[1] = "rejected"
  /\ result[1].err.name = "Error"
  /\ trace[1] = <<<<"pre", 0>>, <<"throw", 1, "Error">>, <<"raise", 0, "Error">>>>

\* ------------------------------------------------------------ urlPrefix
\* The positions of the handlers of a kind in the client's sequence.
PositionsOf(kind) == {j \in DOMAIN middleware : middleware[j] = kind}

\* C13: on a client with urlPrefix(p) registered once, every transport
\* invocation of a call for target t is handed the target p followed by t.
C13_UrlPrefixTarget ==
  \A c \in Calls : \A j \in DOMAIN trace[c] :
    (Cardinality(PositionsOf("urlPrefix")) = 1 /\ trace[c][j][1] = "term") =>
      trace[c][j][2] = Prefix \o Target

\* ------------------------------------------------------------ timeout
\* C14: a timeout handler rejects with TimeoutError only when its own
\* deadline elapsed before downstream completed, and a downstream error
\* other than the abort caused by that deadline is re-thrown as it is.
C14_TimeoutErrorOnlyOnDeadline ==
  \A c \in Calls : \A e \in EpisodesOf(c, "timeout") :
    /\ (e.res.k = "err" /\ e.res.e.name = "TimeoutError") => e.fired
    /\ (e.saw.k = "err" /\ ~(IsAbort(e.saw.e) /\ e.fired)) => e.res = e.saw

\* ------------------------------------------------------------ retry
\* The settled invocations of the handler (or terminal continuation) just
\* after position p, in order.
Downstream(c, p) == SelectSeq(episodes[c], LAMBDA e : e.pos = p + 1)

\* The errors in errs are those that the last Len(errs) settled downstream
\* invocations rejected with, in order.
ErrorsOfAttempts(c, p, errs) ==
  LET d == Downstream(c, p) IN
    /\ Len(errs) <= Len(d)
    /\ \A k \in DOMAIN errs : d[Len(d) - Len(errs) + k].res = Rejected(errs[k])

\* C15: in a retry handler attempt is the number of the downstream
\* invocation: 1 for the first and one more for each following one, set
\* before downstream is invoked.  The decision function is called once per
\* failed attempt: while it is being consulted after the k-th failure its
\* arguments are attempt = k and the error of the k-th invocation, and it has
\* answered k - 1 times.
C15_AttemptNumbering ==
  \A c \in Calls :
    /\ \A j \in DOMAIN stack[c] :
         LET f == stack[c][j] IN
           (f.kind = "retry" /\ f.pc # "start") =>
             /\ f.attempt = f.ncalls
             /\ f.attempt >= 1
             /\ f.pc = "await" =>
                  /\ f.attempt = Len(f.errs) + 1
                  /\ Len(f.decs) = Len(f.errs)
             /\ f.pc = "deciding" =>
                  /\ f.attempt = Len(f.errs)
                  /\ f.err = f.errs[f.attempt]
                  /\ Len(f.decs) = f.attempt - 1
                  /\ ErrorsOfAttempts(c, f.pos, f.errs)
    /\ \A e \in EpisodesOf(c, "retry") :
         /\ e.attempt = e.ncalls
         /\ Len(e.decs) <= Len(e.errs)
    /\ \A j \in DOMAIN trace[c] :
         trace[c][j][1] = "decide" =>
           /\ j > 1
           /\ trace[c][j - 1][1] \in {"raise", "fire"}

C15_Witness ==
  /\ At(1, "retry", "deciding")
  /\ Top(1).attempt = 2
  /\ Len(Top(1).errs) = 2
  /\ Top(1).err = Top(1).errs[2]
  /\ Top(1).errs[1] # Top(1).errs[2]

\* C19: when the decision function throws after a failed attempt, the retry
\* handler rejects at once with the decision function's error, which is not
\* the downstream error: nothing downstream runs again, the handler entered
\* before it sees that error, and a call whose first handler it is rejects
\* with it.
C19_DecisionFailure ==
  \A c \in Calls : \A j \in DOMAIN trace[c] :
    trace[c][j][1] = "refuse" =>
      LET p == trace[c][j][2]
          a == trace[c][j][3] IN
        /\ \E e \in EpisodesOf(c, "retry") :
             /\ e.pos = p /\ e.attempt = a /\ e.ncalls = a
             /\ Len(e.errs) = a
             /\ e.res.k = "err"
             /\ e.res.e.name = "DecisionError"
             /\ \A k \in DOMAIN e.errs : e.errs[k] # e.res.e
        /\ p = 0 =>
             /\ j = Len(trace[c])
             /\ Settled(c) => call[c] = "rejected" /\ result[c].err.name = "DecisionError"
        /\ (p > 0 /\ j < Len(trace[c])) =>
             trace[c][j + 1] = <<"raise", p - 1, "DecisionError">>

C19_Witness ==
  /\ middleware = <<"retry">>
  /\ call[1] = "rejected"
  /\ result[1].err.name = "DecisionError"
  /\ trace[1][Len(trace[1])] = <<"refuse", 0, 2>>
  /\ Len(Downstream(1, 0)) = 2

\* A retry handler settled only after a downstream invocation succeeded,
\* after the decision function answered false, or after it threw (the last
\* failure has no answer).
C16_SettlesOnlyIf ==
  \A c \in Calls : \A e \in EpisodesOf(c, "retry") :
    \/ e.saw.k = "ok"
    \/ Len(e.decs) >= 1 /\ ~e.decs[Len(e.decs)]
    \/ Len(e.decs) < Len(e.errs)

\* Whatever the number of the attempt, an answer of true is followed by one
\* more downstream invocation and the handler goes on: no attempt ceiling.
C16_NoCeiling ==
  \A c \in Calls :
    (At(c, "retry", "deciding") /\ Len(trace'[c]) = Len(trace[c]) + 1
       /\ trace'[c][Len(trace'[c])] = <<"decide", Top(c).attempt, TRUE, Top(c).pos>>)
    => /\ Len(stack'[c]) = Len(stack[c]) + 1
       /\ stack'[c][Len(stack[c])].kind = "retry"
       /\ stack'[c][Len(stack[c])].attempt = Top(c).attempt + 1
       /\ stack'[c][Len(stack'[c])].pos = Top(c).pos + 1
       /\ stack'[c][Len(stack'[c])].pc = "start"
       /\ episodes'[c] = episodes[c]

\* The retry handler with n - 1 frames under it saw a downstream invocation
\* succeed.
C16_Succeeded(c, n) ==
  At(c, "retry", "await") /\ ret[c].k = "ok" /\ Len(stack[c]) = n

\* C16: a retry handler settles only if a downstream invocation succeeded or
\* the decision function answered false or threw; it goes on for as long as
\* the decision function answers true, whatever the attempt; and once a
\* downstream invocation has succeeded it does settle.
C16_RetryTermination ==
  /\ []C16_SettlesOnlyIf
  /\ [][C16_NoCeiling]_vars
  /\ \A c \in Calls : \A n \in 1..(MaxHandlers + 1) :
       C16_Succeeded(c, n) ~> (Len(stack[c]) < n)

C16_Witness ==
  /\ middleware = <<"retry", "throwErrors">>
  /\ Granted(1) = budget
  /\ C16_Succeeded(1, 1)
  /\ Top(1).attempt = MaxRetries + 1

\* ------------------------------------------------------------ repeated next()
\* The events in which position p is entered: a handler starts to run, or
\* the terminal continuation does.
Enters(ev, p) ==
  \/ ev[1] \in {"pre", "skip", "throw"} /\ ev[2] = p
  \/ ev[1] = "term" /\ p = Len(middleware)

\* How many times position p was entered so far in a call.
Entered(c, p) == Len(SelectSeq(trace[c], LAMBDA ev : Enters(ev, p)))

\* How many times a urlPrefix handler was entered so far in a call.
PrefixEntries(c) ==
  Len(SelectSeq(trace[c],
                LAMBDA ev : ev[1] = "pre" /\ KindAt(ev[2]) = "urlPrefix"))

\* Position p was dispatched and its handler has not started to run.
Dispatched(c, p) ==
  IF Running(c) /\ Top(c).pos = p /\ Top(c).pc = "start" THEN 1 ELSE 0

\* The events in which the handler at position p calls its next(): when it
\* is entered (a gate, when it passes the call on) and, for a retry handler,
\* at every answer of true.
CallsNext(ev, p) ==
  \/ ev[1] = "pre" /\ ev[2] = p
  \/ ev[1] = "decide" /\ ev[3] /\ ev[4] = p

\* The calls of next() made so far by the handlers at position p.
NextCalls(c, p) == Len(SelectSeq(trace[c], LAMBDA ev : CallsNext(ev, p)))

\* C17: every call of the next() bound to position p, the second and later
\* ones of a retry handler included, dispatches position p + 1 again; every
\* handler after it that calls next() is entered again and dispatches the
\* position after it, down to the terminal continuation; and all of them run
\* on the same Context: its target has been prefixed once per entry of a
\* urlPrefix handler so far, and that target is what the terminal
\* continuation, when it is invoked, hands to the transport.
C17_RepeatedNext ==
  \A c \in Calls :
    /\ \A p \in 0..(Len(middleware) - 1) :
         /\ Entered(c, p + 1) + Dispatched(c, p + 1) = NextCalls(c, p)
         /\ KindAt(p) # "retry" => NextCalls(c, p) <= Entered(c, p)
         /\ \A j \in DOMAIN stack[c] :
              (stack[c][j].pos = p /\ stack[c][j].kind = "retry") =>
                stack[c][j].ncalls <= NextCalls(c, p)
    /\ cref[c] # 0 => Len(Ctx(c).input) = 1 + PrefixEntries(c)
    /\ (trace[c] # <<>> /\ trace[c][Len(trace[c])][1] = "term") =>
         trace[c][Len(trace[c])][2] = Ctx(c).input

C17_Witness ==
  /\ middleware = <<"retry", "urlPrefix">>
  /\ call[1] = "resolved"
  /\ NextCalls(1, 0) = 2
  /\ Entered(1, 1) = 2
  /\ Entered(1, 2) = 2
  /\ \E j \in DOMAIN trace[1] : trace[1][j] = <<"term", Prefix \o Prefix \o Target, init>>

\* ------------------------------------------------------------ validation
\* C18: compose throws for a sequence that is not an array or that holds an
\* entry that is not a function, and for no other; a call made on a client
\* with such an entry is rejected with that TypeError before any handler or
\* the terminal continuation has run, and no retry handler of the sequence
\* sees the failure.
C18_InvalidSequence ==
  /\ ComposeThrows(NotAnArray)
  /\ ComposeThrows(middleware) <=> NotAFunction \in Range(middleware)
  /\ \A c \in Calls :
       (NotAFunction \in Range(middleware) /\ call[c] # "idle") =>
         /\ call[c] = "rejected"
         /\ result[c].err.name = "TypeError"
         /\ result[c].res = 0
         /\ trace[c] = <<>>
         /\ episodes[c] = <<>>
         /\ stack[c] = <<>>

C18_Witness ==
  /\ middleware = <<"retry", NotAFunction>>
  /\ call[1] = "rejected"
  /\ result[1].err.name = "TypeError"
  /\ trace[1] = <<>>

\* ------------------------------------------------------------ signal
\* How many times a timeout handler was entered in the first j events of a
\* call.  Controllers are numbered in the order of their creation.
TimeoutEntries(c, j) ==
  Cardinality({m \in 1..j : /\ trace[c][m][1] = "pre"
                            /\ KindAt(trace[c][m][2]) = "timeout"})

\* The timeout handlers of a call that have been entered and have not
\* settled, outermost first.
TimeoutFrames(c) ==
  SelectSeq(stack[c], LAMBDA f : f.kind = "timeout" /\ f.pc # "start")

C20_Signal ==
  \A c \in Calls :
    LET n == TimeoutEntries(c, Len(trace[c])) IN
      /\ counters[c].ctls = n
      /\ cref[c] # 0 => Ctx(c).signal = IF n = 0 THEN init ELSE n
      /\ \A j \in DOMAIN trace[c] :
           trace[c][j][1] = "term" =>
             /\ trace[c][j][3] =
                  IF TimeoutEntries(c, j) = 0 THEN init ELSE TimeoutEntries(c, j)
             /\ TimeoutEntries(c, j) > 0 => trace[c][j][3] # init
      /\ \A j \in DOMAIN TimeoutFrames(c) :
           /\ TimeoutFrames(c)[j].ctl \in 1..n
           /\ TimeoutFrames(c)[j].ctl \in armed[c] \cup aborted[c]
           /\ \A k \in DOMAIN TimeoutFrames(c) :
                j < k => TimeoutFrames(c)[j].ctl < TimeoutFrames(c)[k].ctl
      /\ armed[c] \cap aborted[c] = {}
      /\ armed[c] \cup aborted[c] \subseteq 1..n

C20_OneTimerPerEntry ==
  \A c \in Calls :
    At(c, "timeout", "start") /\ stack'[c] # stack[c] =>
      /\ armed'[c] = armed[c] \cup {counters[c].ctls + 1}
      /\ counters[c].ctls + 1 \notin armed[c] \cup aborted[c]
      /\ aborted'[c] = aborted[c]
      /\ Ctx(c)'.signal = counters[c].ctls + 1

\* C20: each timeout handler, on entry, creates a controller of its own,
\* arms exactly one new timer for it and overwrites the request's signal
\* with its signal, a retry's new attempt included.  So the signal the
\* transport receives is that of the timeout handler entered last, and,
\* once a timeout handler has been entered, never the signal of the caller
\* nor that of a timeout handler entered before.
C20_SignalOwnership == []C20_Signal /\ [][C20_OneTimerPerEntry]_vars

C20_Witness ==
  /\ middleware = <<"retry", "timeout">>
  /\ init = CallerSignal
  /\ At(1, "transport", "fetching")
  /\ Top(1).sig = 2
  /\ armed[1] = {2}
  /\ aborted[1] = {1}
====
